---- MODULE Spec2Model ----
(***************************************************************************)
(* Perceptron-based cache replacement (akita/mem/cache): the directory     *)
(* with its Tree-PseudoLRU bits, the sampling PerceptronVictimFinder of    *)
(* directory.go and the prediction-cache PerceptronVictimFinder of         *)
(* perceptron_victimfinder.go.                                             *)
(*                                                                         *)
(* Representation.  A uint64 address is the set of the positions of its 1  *)
(* bits, so (addr>>i)&1 == 1 is  i \in addr  and address 0 is {}.  An      *)
(* int32 is an integer in MinInt32..MaxInt32 with wrapping Add32/Sub32.    *)
(* set.Blocks is a function on 0..len-1, a *Block is the index of the      *)
(* block in set.Blocks, NilBlock is Go's nil.  A runtime panic sets        *)
(* aborted and ends the run.                                               *)
(***************************************************************************)
EXTENDS Integers, FiniteSets, Sequences, TLC

VARIABLES
    weights,                \* PerceptronVictimFinder.weights [32]int32
    threshold,              \* PerceptronVictimFinder.threshold
    theta,                  \* PerceptronVictimFinder.theta
    learningRate,           \* PerceptronVictimFinder.learningRate
    totalPredictions,       \* PerceptronVictimFinder.totalPredictions
    correctPredictions,     \* PerceptronVictimFinder.correctPredictions
    trainingSampleCounter,  \* PerceptronVictimFinder.trainingSampleCounter
    lastPredictionAddr,     \* PerceptronVictimFinder.lastPredictionAddr
    lastPredictionSum,      \* PerceptronVictimFinder.lastPredictionSum
    predictionCache,        \* PerceptronVictimFinder.predictionCache (prediction-cache version)
    NumSets,                \* DirectoryImpl.NumSets
    NumWays,                \* DirectoryImpl.NumWays
    Sets,                   \* DirectoryImpl.Sets
    lastOp,                 \* the call that produced this state, with its arguments
    victim,                 \* the *Block the last victim search returned
    aborted,                \* a runtime panic has ended the run
    touches,                \* the ways passed to Visit so far, in call order
    searches                \* the victim searches made since the set last changed

vars == <<weights, threshold, theta, learningRate, totalPredictions,
          correctPredictions, trainingSampleCounter, lastPredictionAddr,
          lastPredictionSum, predictionCache, NumSets, NumWays, Sets,
          lastOp, victim, aborted, touches, searches>>

predictorVars == <<weights, threshold, theta, learningRate, totalPredictions,
                   correctPredictions, trainingSampleCounter,
                   lastPredictionAddr, lastPredictionSum, predictionCache>>

directoryVars == <<NumSets, NumWays, Sets>>

---------------------------------------------------------------------------
(* Program constants *)

NumWeights == 32
WeightMin == -32
WeightMax == 31
TrainSampleMod == 5
BlockSize == 64
MaxInt32 == 2147483647
MinInt32 == (-2147483647) - 1
DefaultThreshold == 0
DefaultTheta == 32
DefaultLearningRate == 2

(* Bounds of the model *)

MaxTick == 10          \* training calls per run
MaxPredictions == 2    \* victim searches per run
MaxSelPredictions == 1 \* victim searches per lock/valid configuration
MaxTouches == 4        \* recorded touches per run
MaxRepeat == 100       \* training calls per run of a repeated training
MaxFillSearches == 6   \* victim searches per run of a fill
MaxLRULookups == 2     \* victim lookups per run on a directory with the LRU finder
MaxMissSearches == 3   \* victim searches counted in a stream of misses
MaxWarmUp == 10        \* TrainOnEviction calls before the pairs of a learning run
MaxLearnPairs == 50    \* pairs of search and TrainOnHit per learning run
MaxDirTouches == 2     \* recorded Visit calls since NewDirectory or Reset

(* Inputs *)

NoWay == -1
NilBlock == -1       \* a nil *Block
Panic == -2          \* the call ended in a runtime panic

\* context.Address values: 0, bit 0, bits 0 and 17, bits 0 and 40
Addrs == {{}, {0}, {0, 17}, {0, 40}}

\* learningRate values passed to NewPerceptronVictimFinderWithParams
LearningRates == {DefaultLearningRate, 16, MaxInt32}

\* (threshold, theta) pairs passed to NewPerceptronVictimFinderWithParams
Params == {<<DefaultThreshold, DefaultTheta>>, <<1, 8>>}

---------------------------------------------------------------------------
(* int32 arithmetic *)

Add32(a, b) ==
    IF b > 0 /\ a > MaxInt32 - b
    THEN (a - MaxInt32 - 1) + (b + MinInt32)
    ELSE IF b < 0 /\ a < MinInt32 - b
         THEN ((a - MinInt32) + (b + MaxInt32)) + 1
         ELSE a + b

Sub32(a, b) ==
    IF b = MinInt32
    THEN (IF a >= 0 THEN a + MinInt32 ELSE a - MinInt32)
    ELSE Add32(a, 0 - b)

abs(x) == IF x < 0 THEN Sub32(0, x) ELSE x

max(a, b) == IF a > b THEN a ELSE b

min(a, b) == IF a < b THEN a ELSE b

(* uint64 bit operations on Set.PseudoLRUBits *)

RECURSIVE Pow2(_)
Pow2(n) == IF n = 0 THEN 1 ELSE 2 * Pow2(n - 1)

Bit(bits, i) == (bits \div Pow2(i)) % 2

SetBit(bits, i) == IF Bit(bits, i) = 1 THEN bits ELSE bits + Pow2(i)

ClearBit(bits, i) == IF Bit(bits, i) = 1 THEN bits - Pow2(i) ELSE bits

len(blocks) == Cardinality(DOMAIN blocks)

---------------------------------------------------------------------------
(* DirectoryImpl (directory.go) *)

NewBlock(i, j) ==
    [IsValid |-> FALSE, IsLocked |-> FALSE, SetID |-> i, WayID |-> j]

\* faulty variant of Reset: block.SetID and block.WayID are swapped
Reset_IdsSwapped(numSets, numWays) ==
    [i \in 0 .. numSets - 1 |->
        [Blocks |-> [j \in 0 .. numWays - 1 |-> NewBlock(j, i)],
         PseudoLRUBits |-> 0]]

Reset(numSets, numWays) ==
    [i \in 0 .. numSets - 1 |->
        [Blocks |-> [j \in 0 .. numWays - 1 |-> NewBlock(i, j)],
         PseudoLRUBits |-> 0]]

getSet(reqAddr) == (reqAddr \div BlockSize) % NumSets

\* faulty variant of updatePseudoLRU8Way: the leaf bit of ways 6 and 7 is
\* bit 7
updatePseudoLRU8Way_LeafBit7(bits, wayID) ==
    IF wayID < 4
    THEN LET b0 == ClearBit(bits, 0) IN
         IF wayID < 2
         THEN LET b1 == ClearBit(b0, 1) IN
              IF wayID = 0 THEN SetBit(b1, 3) ELSE ClearBit(b1, 3)
         ELSE LET b1 == SetBit(b0, 1) IN
              IF wayID = 2 THEN SetBit(b1, 4) ELSE ClearBit(b1, 4)
    ELSE LET b0 == SetBit(bits, 0) IN
         IF wayID < 6
         THEN LET b2 == ClearBit(b0, 2) IN
              IF wayID = 4 THEN SetBit(b2, 5) ELSE ClearBit(b2, 5)
         ELSE LET b2 == SetBit(b0, 2) IN
              IF wayID = 6 THEN SetBit(b2, 7) ELSE ClearBit(b2, 7)

updatePseudoLRU8Way(bits, wayID) ==
    IF wayID < 4
    THEN LET b0 == ClearBit(bits, 0) IN
         IF wayID < 2
         THEN LET b1 == ClearBit(b0, 1) IN
              IF wayID = 0 THEN SetBit(b1, 3) ELSE ClearBit(b1, 3)
         ELSE LET b1 == SetBit(b0, 1) IN
              IF wayID = 2 THEN SetBit(b1, 4) ELSE ClearBit(b1, 4)
    ELSE LET b0 == SetBit(bits, 0) IN
         IF wayID < 6
         THEN LET b2 == ClearBit(b0, 2) IN
              IF wayID = 4 THEN SetBit(b2, 5) ELSE ClearBit(b2, 5)
         ELSE LET b2 == SetBit(b0, 2) IN
              IF wayID = 6 THEN SetBit(b2, 6) ELSE ClearBit(b2, 6)

\* faulty variant of updatePseudoLRU: the 2-way bit and the 4-way leaf bits
\* point at the touched way itself
updatePseudoLRU_LeafAtTouched(bits, numWays, wayID) ==
    CASE numWays = 2 ->
            IF wayID = 0 THEN ClearBit(bits, 0) ELSE SetBit(bits, 0)
      [] numWays = 4 ->
            IF wayID < 2
            THEN LET b0 == ClearBit(bits, 0) IN
                 IF wayID = 0 THEN ClearBit(b0, 1) ELSE SetBit(b0, 1)
            ELSE LET b0 == SetBit(bits, 0) IN
                 IF wayID = 2 THEN ClearBit(b0, 2) ELSE SetBit(b0, 2)
      [] numWays = 8 -> updatePseudoLRU8Way(bits, wayID)
      [] OTHER -> (bits + 1) % numWays

\* faulty variant of updatePseudoLRU: the 4-way root bit is set for the left
\* half and cleared for the right half
updatePseudoLRU_RootInverted(bits, numWays, wayID) ==
    CASE numWays = 2 ->
            IF wayID = 0 THEN SetBit(bits, 0) ELSE ClearBit(bits, 0)
      [] numWays = 4 ->
            IF wayID < 2
            THEN LET b0 == SetBit(bits, 0) IN
                 IF wayID = 0 THEN SetBit(b0, 1) ELSE ClearBit(b0, 1)
            ELSE LET b0 == ClearBit(bits, 0) IN
                 IF wayID = 2 THEN SetBit(b0, 2) ELSE ClearBit(b0, 2)
      [] numWays = 8 -> updatePseudoLRU8Way(bits, wayID)
      [] OTHER -> (bits + 1) % numWays

\* the new set.PseudoLRUBits; numWays is len(set.Blocks)
\* faulty variant of updatePseudoLRU: on a 2-way set a touch flips bit 0
\* whatever the way
updatePseudoLRU_BitFlipped(bits, numWays, wayID) ==
    CASE numWays = 2 ->
            IF Bit(bits, 0) = 0 THEN SetBit(bits, 0) ELSE ClearBit(bits, 0)
      [] numWays = 4 ->
            IF wayID < 2
            THEN LET b0 == ClearBit(bits, 0) IN
                 IF wayID = 0 THEN SetBit(b0, 1) ELSE ClearBit(b0, 1)
            ELSE LET b0 == SetBit(bits, 0) IN
                 IF wayID = 2 THEN SetBit(b0, 2) ELSE ClearBit(b0, 2)
      [] numWays = 8 -> updatePseudoLRU8Way(bits, wayID)
      [] OTHER -> (bits + 1) % numWays

updatePseudoLRU(bits, numWays, wayID) ==
    CASE numWays = 2 ->
            IF wayID = 0 THEN SetBit(bits, 0) ELSE ClearBit(bits, 0)
      [] numWays = 4 ->
            IF wayID < 2
            THEN LET b0 == ClearBit(bits, 0) IN
                 IF wayID = 0 THEN SetBit(b0, 1) ELSE ClearBit(b0, 1)
            ELSE LET b0 == SetBit(bits, 0) IN
                 IF wayID = 2 THEN SetBit(b0, 2) ELSE ClearBit(b0, 2)
      [] numWays = 8 -> updatePseudoLRU8Way(bits, wayID)
      [] OTHER -> (bits + 1) % numWays

---------------------------------------------------------------------------
(* PerceptronVictimFinder, sampling version (directory.go) *)

getPseudoLRUVictim8Way(bits) ==
    IF Bit(bits, 0) = 0
    THEN IF Bit(bits, 1) = 0
         THEN (IF Bit(bits, 3) = 0 THEN 0 ELSE 1)
         ELSE (IF Bit(bits, 4) = 0 THEN 2 ELSE 3)
    ELSE IF Bit(bits, 2) = 0
         THEN (IF Bit(bits, 5) = 0 THEN 4 ELSE 5)
         ELSE (IF Bit(bits, 6) = 0 THEN 6 ELSE 7)

\* numWays = 0 reaches the default case, whose modulo by zero panics:
\* the callers test PseudoLRUPanics before they use the value
\* faulty variant of getPseudoLRUVictim: on a 4-way set the root bit is read
\* the other way round (0 for the right half)
getPseudoLRUVictim_RootAway(bits, numWays) ==
    CASE numWays = 2 -> IF Bit(bits, 0) = 0 THEN 0 ELSE 1
      [] numWays = 4 ->
            IF Bit(bits, 0) = 1
            THEN (IF Bit(bits, 1) = 0 THEN 0 ELSE 1)
            ELSE (IF Bit(bits, 2) = 0 THEN 2 ELSE 3)
      [] numWays = 8 -> getPseudoLRUVictim8Way(bits)
      [] OTHER -> bits % numWays

getPseudoLRUVictim(bits, numWays) ==
    CASE numWays = 2 -> IF Bit(bits, 0) = 0 THEN 0 ELSE 1
      [] numWays = 4 ->
            IF Bit(bits, 0) = 0
            THEN (IF Bit(bits, 1) = 0 THEN 0 ELSE 1)
            ELSE (IF Bit(bits, 2) = 0 THEN 2 ELSE 3)
      [] numWays = 8 -> getPseudoLRUVictim8Way(bits)
      [] OTHER -> bits % numWays

PseudoLRUPanics(numWays) == numWays = 0

\* for _, block := range blocks { if !block.IsValid && !block.IsLocked
\* { return block } }: the way of the block returned, NoWay if the loop ends
FirstFree(blocks) ==
    IF \E j \in DOMAIN blocks : ~blocks[j].IsValid /\ ~blocks[j].IsLocked
    THEN CHOOSE j \in DOMAIN blocks :
            /\ ~blocks[j].IsValid /\ ~blocks[j].IsLocked
            /\ \A k \in 0 .. j - 1 : blocks[k].IsValid \/ blocks[k].IsLocked
    ELSE NoWay

\* for _, block := range blocks { if !block.IsLocked { return block } }
FirstUnlocked(blocks) ==
    IF \E j \in DOMAIN blocks : ~blocks[j].IsLocked
    THEN CHOOSE j \in DOMAIN blocks :
            /\ ~blocks[j].IsLocked
            /\ \A k \in 0 .. j - 1 : blocks[k].IsLocked
    ELSE NoWay

\* faulty variant of findPseudoLRUVictim: no final fallback to set.Blocks[0]
findPseudoLRUVictim_NoFinalFallback(set) ==
    LET numWays == len(set.Blocks) IN
    IF PseudoLRUPanics(numWays) THEN Panic
    ELSE LET victimWay == getPseudoLRUVictim(set.PseudoLRUBits, numWays) IN
         IF victimWay < numWays /\ ~set.Blocks[victimWay].IsLocked
         THEN victimWay
         ELSE IF FirstUnlocked(set.Blocks) # NoWay
              THEN FirstUnlocked(set.Blocks)
              ELSE NilBlock

\* faulty variant of findPseudoLRUVictim: the lock of the PseudoLRU way is
\* not tested
findPseudoLRUVictim_IgnoreLock(set) ==
    LET numWays == len(set.Blocks) IN
    IF PseudoLRUPanics(numWays) THEN Panic
    ELSE LET victimWay == getPseudoLRUVictim(set.PseudoLRUBits, numWays) IN
         IF victimWay < numWays
         THEN victimWay
         ELSE IF FirstUnlocked(set.Blocks) # NoWay
              THEN FirstUnlocked(set.Blocks)
              ELSE IF len(set.Blocks) > 0 THEN 0 ELSE NilBlock

\* the way of the returned block, NilBlock for nil, Panic for a runtime panic
findPseudoLRUVictim(set) ==
    LET numWays == len(set.Blocks) IN
    IF PseudoLRUPanics(numWays) THEN Panic
    ELSE LET victimWay == getPseudoLRUVictim(set.PseudoLRUBits, numWays) IN
         IF victimWay < numWays /\ ~set.Blocks[victimWay].IsLocked
         THEN victimWay
         ELSE IF FirstUnlocked(set.Blocks) # NoWay
              THEN FirstUnlocked(set.Blocks)
              ELSE IF len(set.Blocks) > 0 THEN 0 ELSE NilBlock

\* LRUVictimFinder.FindVictim, the PseudoLRU baseline: the way of the
\* returned block, NilBlock for nil, Panic for a runtime panic
LRUFindVictim(set) ==
    IF FirstFree(set.Blocks) # NoWay
    THEN FirstFree(set.Blocks)
    ELSE LET numWays == len(set.Blocks) IN
         IF PseudoLRUPanics(numWays) THEN Panic
         ELSE LET victimWay == getPseudoLRUVictim(set.PseudoLRUBits, numWays)
              IN IF victimWay < numWays /\ ~set.Blocks[victimWay].IsLocked
                 THEN victimWay
                 ELSE IF len(set.Blocks) > 0 THEN 0 ELSE NilBlock

\* faulty variant of selectVictim: no first pass over the invalid blocks
selectVictim_NoInvalidPass(set, predictNoReuse, predictionSum, th) ==
    LET isConfident == abs(predictionSum) >= th IN
    IF isConfident
    THEN IF predictNoReuse
         THEN IF FirstUnlocked(set.Blocks) # NoWay
              THEN FirstUnlocked(set.Blocks)
              ELSE IF len(set.Blocks) > 0 THEN 0 ELSE NilBlock
         ELSE findPseudoLRUVictim(set)
    ELSE findPseudoLRUVictim(set)

\* faulty variant of selectVictim: a confident no-reuse prediction takes the
\* PseudoLRU path too
selectVictim_AlwaysPseudoLRU(set, predictNoReuse, predictionSum, th) ==
    IF FirstFree(set.Blocks) # NoWay
    THEN FirstFree(set.Blocks)
    ELSE findPseudoLRUVictim(set)

\* faulty variant of selectVictim: every confident prediction, of reuse too,
\* evicts the first unlocked block
selectVictim_ConfidentEvictsFirst(set, predictNoReuse, predictionSum, th) ==
    IF FirstFree(set.Blocks) # NoWay
    THEN FirstFree(set.Blocks)
    ELSE LET isConfident == abs(predictionSum) >= th IN
         IF isConfident
         THEN IF FirstUnlocked(set.Blocks) # NoWay
              THEN FirstUnlocked(set.Blocks)
              ELSE IF len(set.Blocks) > 0 THEN 0 ELSE NilBlock
         ELSE findPseudoLRUVictim(set)

\* faulty variant of selectVictim: the pass over the invalid blocks comes
\* after the confident no-reuse branch
selectVictim_ConfidentBeforeInvalid(set, predictNoReuse, predictionSum, th) ==
    IF abs(predictionSum) >= th /\ predictNoReuse
    THEN IF FirstUnlocked(set.Blocks) # NoWay
         THEN FirstUnlocked(set.Blocks)
         ELSE IF len(set.Blocks) > 0 THEN 0 ELSE NilBlock
    ELSE IF FirstFree(set.Blocks) # NoWay
         THEN FirstFree(set.Blocks)
         ELSE findPseudoLRUVictim(set)

selectVictim(set, predictNoReuse, predictionSum, th) ==
    IF FirstFree(set.Blocks) # NoWay
    THEN FirstFree(set.Blocks)
    ELSE LET isConfident == abs(predictionSum) >= th IN
         IF isConfident
         THEN IF predictNoReuse
              THEN IF FirstUnlocked(set.Blocks) # NoWay
                   THEN FirstUnlocked(set.Blocks)
                   ELSE IF len(set.Blocks) > 0 THEN 0 ELSE NilBlock
              ELSE findPseudoLRUVictim(set)
         ELSE findPseudoLRUVictim(set)

RECURSIVE SumFrom(_, _, _, _)
SumFrom(w, addr, i, sum) ==
    IF i = NumWeights THEN sum
    ELSE SumFrom(w, addr, i + 1, IF i \in addr THEN Add32(sum, w[i]) ELSE sum)

\* faulty variant of calculatePredictionSum: the second loop (the tag bits
\* 16..31) is left out
calculatePredictionSum_NoTagBits(w, addr) ==
    SumFrom(w, addr \cap (0 .. 15), 0, 0)

calculatePredictionSum(w, addr) == SumFrom(w, addr, 0, 0)

\* faulty variant of trainWithSum: a correct prediction is counted only when
\* the weights are left alone
trainWithSum_CountsOnlyConfident(w, correct, addr, predictedNoReuse, sum, actualReuse) ==
    LET actualNoReuse == ~actualReuse
        update == predictedNoReuse # actualNoReuse \/ abs(sum) < theta
    IN [weights |->
            [i \in 0 .. NumWeights - 1 |->
                IF update /\ i \in addr
                THEN IF actualReuse
                     THEN max(WeightMin, Sub32(w[i], learningRate))
                     ELSE min(WeightMax, Add32(w[i], learningRate))
                ELSE w[i]],
        correctPredictions |->
            IF predictedNoReuse = actualNoReuse /\ ~update
            THEN correct + 1 ELSE correct]

\* faulty variant of trainWithSum: a reuse raises the weights and an
\* eviction lowers them
trainWithSum_DirectionSwapped(w, correct, addr, predictedNoReuse, sum, actualReuse) ==
    LET actualNoReuse == ~actualReuse
        update == predictedNoReuse # actualNoReuse \/ abs(sum) < theta
    IN [weights |->
            [i \in 0 .. NumWeights - 1 |->
                IF update /\ i \in addr
                THEN IF actualReuse
                     THEN min(WeightMax, Add32(w[i], learningRate))
                     ELSE max(WeightMin, Sub32(w[i], learningRate))
                ELSE w[i]],
        correctPredictions |->
            IF predictedNoReuse = actualNoReuse THEN correct + 1 ELSE correct]

\* faulty variant of trainWithSum: the raised weight is clamped at +32
trainWithSum_ClampAbove(w, correct, addr, predictedNoReuse, sum, actualReuse) ==
    LET actualNoReuse == ~actualReuse
        update == predictedNoReuse # actualNoReuse \/ abs(sum) < theta
    IN [weights |->
            [i \in 0 .. NumWeights - 1 |->
                IF update /\ i \in addr
                THEN IF actualReuse
                     THEN max(WeightMin, Sub32(w[i], learningRate))
                     ELSE min(WeightMax + 1, Add32(w[i], learningRate))
                ELSE w[i]],
        correctPredictions |->
            IF predictedNoReuse = actualNoReuse THEN correct + 1 ELSE correct]

\* the weights and correctPredictions after trainWithSum
\* faulty variant of trainWithSum: a wrong prediction is taken off the count
\* of correct ones
trainWithSum_WrongCountsDown(w, correct, addr, predictedNoReuse, sum, actualReuse) ==
    LET actualNoReuse == ~actualReuse
        update == predictedNoReuse # actualNoReuse \/ abs(sum) < theta
    IN [weights |->
            [i \in 0 .. NumWeights - 1 |->
                IF update /\ i \in addr
                THEN IF actualReuse
                     THEN max(WeightMin, Sub32(w[i], learningRate))
                     ELSE min(WeightMax, Add32(w[i], learningRate))
                ELSE w[i]],
        correctPredictions |->
            IF predictedNoReuse = actualNoReuse THEN correct + 1
            ELSE correct - 1]

trainWithSum(w, correct, addr, predictedNoReuse, sum, actualReuse) ==
    LET actualNoReuse == ~actualReuse
        update == predictedNoReuse # actualNoReuse \/ abs(sum) < theta
    IN [weights |->
            [i \in 0 .. NumWeights - 1 |->
                IF update /\ i \in addr
                THEN IF actualReuse
                     THEN max(WeightMin, Sub32(w[i], learningRate))
                     ELSE min(WeightMax, Add32(w[i], learningRate))
                ELSE w[i]],
        correctPredictions |->
            IF predictedNoReuse = actualNoReuse THEN correct + 1 ELSE correct]

\* faulty variant of shouldTrain: every 4th call trains
shouldTrain_EveryFourth(c) == c % (TrainSampleMod - 1) = 0

\* faulty variant of shouldTrain: every call trains
shouldTrain_EveryCall(c) == c % 1 = 0

\* the value shouldTrain returns once it has incremented the counter to c
\* faulty variant of shouldTrain: no call is admitted
shouldTrain_Never(c) == c % TrainSampleMod = TrainSampleMod

shouldTrain(c) == c % TrainSampleMod = 0

\* the call, its address argument, the set and the way it was about
Op(name, addr, set, way) ==
    [name |-> name, addr |-> addr, set |-> set, way |-> way]

\* faulty variant of Train: a call for an address other than
\* lastPredictionAddr returns after the sampling gate
Train_SkipOnMismatch(name, addr, actualReuse) ==
    /\ trainingSampleCounter < MaxTick
    /\ trainingSampleCounter' = trainingSampleCounter + 1
    /\ IF shouldTrain(trainingSampleCounter + 1) /\ lastPredictionAddr = addr
       THEN LET sum == lastPredictionSum
                predictNoReuse == sum >= threshold
                r == trainWithSum(weights, correctPredictions, addr,
                                  predictNoReuse, sum, actualReuse)
            IN /\ weights' = r.weights
               /\ correctPredictions' = r.correctPredictions
       ELSE UNCHANGED <<weights, correctPredictions>>
    /\ lastOp' = Op(name, addr, NoWay, NoWay)
    /\ UNCHANGED <<threshold, theta, learningRate, totalPredictions,
                   lastPredictionAddr, lastPredictionSum, predictionCache,
                   directoryVars, victim, aborted, touches, searches>>

\* faulty variant of Train: the score is always recomputed from the current
\* weights
Train_AlwaysRecomputes(name, addr, actualReuse) ==
    /\ trainingSampleCounter < MaxTick
    /\ trainingSampleCounter' = trainingSampleCounter + 1
    /\ IF shouldTrain(trainingSampleCounter + 1)
       THEN LET sum == calculatePredictionSum(weights, addr)
                predictNoReuse == sum >= threshold
                r == trainWithSum(weights, correctPredictions, addr,
                                  predictNoReuse, sum, actualReuse)
            IN /\ weights' = r.weights
               /\ correctPredictions' = r.correctPredictions
       ELSE UNCHANGED <<weights, correctPredictions>>
    /\ lastOp' = Op(name, addr, NoWay, NoWay)
    /\ UNCHANGED <<threshold, theta, learningRate, totalPredictions,
                   lastPredictionAddr, lastPredictionSum, predictionCache,
                   directoryVars, victim, aborted, touches, searches>>

\* TrainOnHit, TrainOnEviction and Access share this body; they differ in
\* the outcome they pass to trainWithSum
TrainCall(name, addr, actualReuse) ==
    /\ trainingSampleCounter' = trainingSampleCounter + 1
    /\ IF shouldTrain(trainingSampleCounter + 1)
       THEN LET sum == IF lastPredictionAddr = addr
                       THEN lastPredictionSum
                       ELSE calculatePredictionSum(weights, addr)
                predictNoReuse == sum >= threshold
                r == trainWithSum(weights, correctPredictions, addr,
                                  predictNoReuse, sum, actualReuse)
            IN /\ weights' = r.weights
               /\ correctPredictions' = r.correctPredictions
       ELSE UNCHANGED <<weights, correctPredictions>>
    /\ lastOp' = Op(name, addr, NoWay, NoWay)
    /\ UNCHANGED <<threshold, theta, learningRate, totalPredictions,
                   lastPredictionAddr, lastPredictionSum, predictionCache,
                   directoryVars, victim, aborted, touches, searches>>

\* a training call of a run of at most MaxTick training calls
Train(name, addr, actualReuse) ==
    /\ trainingSampleCounter < MaxTick
    /\ TrainCall(name, addr, actualReuse)

TrainOnHit ==
    /\ ~aborted
    /\ \E addr \in Addrs : Train("TrainOnHit", addr, TRUE)

TrainOnEviction ==
    /\ ~aborted
    /\ \E addr \in Addrs : Train("TrainOnEviction", addr, FALSE)

Access ==
    /\ ~aborted
    /\ \E addr \in Addrs : Train("Access", addr, TRUE)

\* faulty variant of FindVictimWithContextIn: the search also applies a
\* reuse training for its address
FindVictimWithContextIn_TrainsOnSearch(s, addr) ==
    LET sum == calculatePredictionSum(weights, addr)
        predictNoReuse == sum >= threshold
        v == selectVictim(Sets[s], predictNoReuse, sum, theta)
        r == trainWithSum(weights, correctPredictions, addr,
                          predictNoReuse, sum, TRUE)
    IN /\ lastPredictionAddr' = addr
       /\ lastPredictionSum' = sum
       /\ weights' = r.weights
       /\ IF v = Panic
          THEN /\ aborted' = TRUE
               /\ victim' = NilBlock
               /\ UNCHANGED totalPredictions
          ELSE /\ victim' = v
               /\ totalPredictions' = totalPredictions + 1
               /\ UNCHANGED aborted
       /\ lastOp' = Op("FindVictimWithContext", addr, s, NoWay)
       /\ UNCHANGED <<threshold, theta, learningRate,
                      correctPredictions, trainingSampleCounter,
                      predictionCache, directoryVars, touches>>

\* faulty variant of FindVictimWithContextIn: a search that returns an
\* invalid block is not counted
FindVictimWithContextIn_FillNotCounted(s, addr) ==
    LET sum == calculatePredictionSum(weights, addr)
        predictNoReuse == sum >= threshold
        v == selectVictim(Sets[s], predictNoReuse, sum, theta)
    IN /\ lastPredictionAddr' = addr
       /\ lastPredictionSum' = sum
       /\ IF v = Panic
          THEN /\ aborted' = TRUE
               /\ victim' = NilBlock
               /\ UNCHANGED totalPredictions
          ELSE /\ victim' = v
               /\ totalPredictions' =
                      IF v # NilBlock /\ ~Sets[s].Blocks[v].IsValid
                      THEN totalPredictions
                      ELSE totalPredictions + 1
               /\ UNCHANGED aborted
       /\ lastOp' = Op("FindVictimWithContext", addr, s, NoWay)
       /\ UNCHANGED <<weights, threshold, theta, learningRate,
                      correctPredictions, trainingSampleCounter,
                      predictionCache, directoryVars, touches>>

\* PerceptronVictimFinder.FindVictimWithContext on the set s of the
\* directory; counted is the value p.totalPredictions++ leaves
FindVictimWithContextCounting(s, addr, counted) ==
    LET sum == calculatePredictionSum(weights, addr)
        predictNoReuse == sum >= threshold
        v == selectVictim(Sets[s], predictNoReuse, sum, theta)
    IN /\ lastPredictionAddr' = addr
       /\ lastPredictionSum' = sum
       /\ IF v = Panic
          THEN /\ aborted' = TRUE
               /\ victim' = NilBlock
               /\ UNCHANGED totalPredictions
          ELSE /\ victim' = v
               /\ totalPredictions' = counted
               /\ UNCHANGED aborted
       /\ lastOp' = Op("FindVictimWithContext", addr, s, NoWay)
       /\ UNCHANGED <<weights, threshold, theta, learningRate,
                      correctPredictions, trainingSampleCounter,
                      predictionCache, directoryVars, touches>>

\* PerceptronVictimFinder.FindVictimWithContext on the set s of the directory
FindVictimWithContextIn(s, addr) ==
    FindVictimWithContextCounting(s, addr, totalPredictions + 1)

\* DirectoryImpl.FindVictimWithContext with a PerceptronVictimFinder installed
FindVictimWithContext ==
    /\ ~aborted
    /\ NumSets > 0
    /\ totalPredictions < MaxPredictions
    /\ \E reqAddr \in {0, BlockSize}, addr \in Addrs :
          FindVictimWithContextIn(getSet(reqAddr), addr)
    /\ UNCHANGED searches

---------------------------------------------------------------------------
(* The predictor from construction: NewDirectory and                       *)
(* NewPerceptronVictimFinderWithParams, then victim searches and training  *)

NewPredictor(p, lr) ==
    /\ weights = [i \in 0 .. NumWeights - 1 |-> 0]
    /\ threshold = p[1]
    /\ theta = p[2]
    /\ learningRate = lr
    /\ totalPredictions = 0
    /\ correctPredictions = 0
    /\ trainingSampleCounter = 0
    /\ lastPredictionAddr = {}
    /\ lastPredictionSum = 0
    /\ predictionCache = <<>>

NewDirectory(numSets, numWays) ==
    /\ NumSets = numSets
    /\ NumWays = numWays
    /\ Sets = Reset(numSets, numWays)

Init ==
    /\ \E p \in Params, lr \in LearningRates : NewPredictor(p, lr)
    /\ NewDirectory(1, 2)
    /\ lastOp = Op("New", {}, NoWay, NoWay)
    /\ victim = NilBlock
    /\ aborted = FALSE
    /\ touches = <<>>
    /\ searches = <<>>

Next ==
    \/ FindVictimWithContext
    \/ TrainOnHit
    \/ TrainOnEviction
    \/ Access

Spec == Init /\ [][Next]_vars

---------------------------------------------------------------------------
(* Touches and victim lookups on full sets: NewDirectory, every block then *)
(* filled by the cache pipeline, a new predictor with the default          *)
(* parameters                                                              *)

PLRUWays == {2, 3, 4, 8}

\* faulty variant of VisitBlock: the bits of set 0 are updated whatever the
\* set of the block
VisitBlock_FirstSet(s, j) ==
    LET block == Sets[s].Blocks[j]
        set == Sets[0]
    IN /\ Sets' = [Sets EXCEPT ![0].PseudoLRUBits =
                      updatePseudoLRU(set.PseudoLRUBits,
                                      len(set.Blocks), block.WayID)]
       /\ lastOp' = Op("Visit", {}, block.SetID, block.WayID)
       /\ victim' = NilBlock
       /\ UNCHANGED <<predictorVars, NumSets, NumWays, aborted>>

\* DirectoryImpl.Visit(block) for the block at way j of set s
VisitBlock(s, j) ==
    LET block == Sets[s].Blocks[j]
        set == Sets[block.SetID]
    IN /\ Sets' = [Sets EXCEPT ![block.SetID].PseudoLRUBits =
                      updatePseudoLRU(set.PseudoLRUBits,
                                      len(set.Blocks), block.WayID)]
       /\ lastOp' = Op("Visit", {}, block.SetID, block.WayID)
       /\ victim' = NilBlock
       /\ UNCHANGED <<predictorVars, NumSets, NumWays, aborted>>

\* Visit of any block, the order of the calls not recorded
Visit ==
    /\ ~aborted
    /\ \E s \in DOMAIN Sets : \E j \in DOMAIN Sets[s].Blocks : VisitBlock(s, j)
    /\ UNCHANGED <<touches, searches>>

\* the sets of a directory whose blocks have the flags valid[i][j] and
\* locked[i][j] and whose recency bits are bits[i]
DirectorySets(numSets, numWays, valid, locked, bits) ==
    [i \in 0 .. numSets - 1 |->
        [Blocks |-> [j \in 0 .. numWays - 1 |->
                        [NewBlock(i, j) EXCEPT !.IsValid = valid[i][j],
                                               !.IsLocked = locked[i][j]]],
         PseudoLRUBits |-> bits[i]]]

InitPLRU ==
    /\ NewPredictor(<<DefaultThreshold, DefaultTheta>>, DefaultLearningRate)
    /\ \E w \in PLRUWays :
          /\ NumSets = 1
          /\ NumWays = w
          /\ Sets = DirectorySets(1, w,
                        [i \in {0} |-> [j \in 0 .. w - 1 |-> TRUE]],
                        [i \in {0} |-> [j \in 0 .. w - 1 |-> FALSE]],
                        [i \in {0} |-> 0])
    /\ lastOp = Op("New", {}, NoWay, NoWay)
    /\ victim = NilBlock
    /\ aborted = FALSE
    /\ touches = <<>>
    /\ searches = <<>>

NextPLRU ==
    \/ Visit
    \/ FindVictimWithContext

SpecPLRU == InitPLRU /\ [][NextPLRU]_vars

---------------------------------------------------------------------------
(* Touches in a recorded order: the first MaxTouches calls of Visit on a   *)
(* full set of a new directory, with victim searches between them          *)

TouchWays == {2, 4}

\* Visit of any block, the way appended to touches
VisitInOrder ==
    /\ ~aborted
    /\ Len(touches) < MaxTouches
    /\ \E s \in DOMAIN Sets : \E j \in DOMAIN Sets[s].Blocks :
          /\ VisitBlock(s, j)
          /\ touches' = Append(touches, Sets[s].Blocks[j].WayID)
    /\ UNCHANGED searches

InitTouch ==
    /\ NewPredictor(<<DefaultThreshold, DefaultTheta>>, DefaultLearningRate)
    /\ \E w \in TouchWays :
          /\ NumSets = 1
          /\ NumWays = w
          /\ Sets = DirectorySets(1, w,
                        [i \in {0} |-> [j \in 0 .. w - 1 |-> TRUE]],
                        [i \in {0} |-> [j \in 0 .. w - 1 |-> FALSE]],
                        [i \in {0} |-> 0])
    /\ lastOp = Op("New", {}, NoWay, NoWay)
    /\ victim = NilBlock
    /\ aborted = FALSE
    /\ touches = <<>>
    /\ searches = <<>>

NextTouch ==
    \/ VisitInOrder
    \/ FindVictimWithContext

SpecTouch == InitTouch /\ [][NextTouch]_vars

---------------------------------------------------------------------------
(* Victim selection over every lock/valid configuration: one set of        *)
(* SelWays ways whose blocks the cache pipeline has written and whose ways *)
(* Visit has touched; the predictor is new or has applied one training for *)
(* TrainedAddr                                                             *)

SelWays == {0, 1, 2, 3, 4}
SelLearningRates == {16}
TrainedAddr == {0, 17}
SelAddrs == {{}, {0}, TrainedAddr}

\* the values Visit gives set.PseudoLRUBits on a set of numWays ways
TouchedBits(numWays) ==
    IF numWays \in {2, 4, 8} THEN 0 .. Pow2(numWays - 1) - 1
    ELSE IF numWays = 0 THEN {0}
    ELSE 0 .. numWays - 1

\* the predictor after TrainSampleMod calls of TrainOnHit(addr) (reused) or
\* of TrainOnEviction(addr) (not reused) on a new predictor
TrainedPredictor(p, lr, addr, actualReuse) ==
    /\ threshold = p[1]
    /\ theta = p[2]
    /\ learningRate = lr
    /\ LET zero == [i \in 0 .. NumWeights - 1 |-> 0]
           r == trainWithSum(zero, 0, addr, 0 >= threshold, 0, actualReuse)
       IN /\ weights = r.weights
          /\ correctPredictions = r.correctPredictions
    /\ totalPredictions = 0
    /\ trainingSampleCounter = TrainSampleMod
    /\ lastPredictionAddr = {}
    /\ lastPredictionSum = 0
    /\ predictionCache = <<>>

InitSel ==
    /\ \E p \in Params, lr \in SelLearningRates :
          \/ NewPredictor(p, lr)
          \/ \E actualReuse \in BOOLEAN :
                TrainedPredictor(p, lr, TrainedAddr, actualReuse)
    /\ \E w \in SelWays :
          /\ NumSets = 1
          /\ NumWays = w
          /\ \E valid \in [0 .. w - 1 -> BOOLEAN],
                locked \in [0 .. w - 1 -> BOOLEAN],
                bits \in TouchedBits(w) :
                Sets = DirectorySets(1, w, [i \in {0} |-> valid],
                                     [i \in {0} |-> locked],
                                     [i \in {0} |-> bits])
    /\ lastOp = Op("New", {}, NoWay, NoWay)
    /\ victim = NilBlock
    /\ aborted = FALSE
    /\ touches = <<>>
    /\ searches = <<>>

\* FindVictimWithContext for the addresses SelAddrs
FindVictimWithContextSel ==
    /\ ~aborted
    /\ NumSets > 0
    /\ totalPredictions < MaxSelPredictions
    /\ \E addr \in SelAddrs : FindVictimWithContextIn(getSet(0), addr)
    /\ UNCHANGED searches

NextSel == FindVictimWithContextSel

SpecSel == InitSel /\ [][NextSel]_vars

---------------------------------------------------------------------------
(* Repeated training: a new predictor, then TrainOnEviction again and      *)
(* again for one address                                                   *)

\* TrainOnEviction for the address of the call before it
TrainOnEvictionRepeated ==
    /\ ~aborted
    /\ trainingSampleCounter < MaxRepeat
    /\ \E addr \in Addrs :
          /\ lastOp.name = "TrainOnEviction" => lastOp.addr = addr
          /\ TrainCall("TrainOnEviction", addr, FALSE)

InitEvict ==
    /\ \E p \in Params, lr \in LearningRates : NewPredictor(p, lr)
    /\ NewDirectory(1, 2)
    /\ lastOp = Op("New", {}, NoWay, NoWay)
    /\ victim = NilBlock
    /\ aborted = FALSE
    /\ touches = <<>>
    /\ searches = <<>>

NextEvict == TrainOnEvictionRepeated

SpecEvict == InitEvict /\ [][NextEvict]_vars

---------------------------------------------------------------------------
(* Every operation of the predictor: the runs of Spec with the victim      *)
(* search without context and the statistics read added                    *)

\* PerceptronVictimFinder.FindVictim: the way of the returned block,
\* NilBlock for nil
PerceptronFindVictim(set) ==
    IF FirstFree(set.Blocks) # NoWay
    THEN FirstFree(set.Blocks)
    ELSE IF FirstUnlocked(set.Blocks) # NoWay
         THEN FirstUnlocked(set.Blocks)
         ELSE IF len(set.Blocks) > 0 THEN 0 ELSE NilBlock

\* DirectoryImpl.FindVictim with a PerceptronVictimFinder installed
FindVictim ==
    /\ ~aborted
    /\ NumSets > 0
    /\ \E reqAddr \in {0, BlockSize} :
          /\ victim' = PerceptronFindVictim(Sets[getSet(reqAddr)])
          /\ lastOp' = Op("FindVictim", {}, getSet(reqAddr), NoWay)
    /\ UNCHANGED <<predictorVars, directoryVars, aborted, touches, searches>>

\* PerceptronVictimFinder.GetStats reads totalPredictions and
\* correctPredictions and writes nothing
GetStats ==
    /\ ~aborted
    /\ lastOp' = Op("GetStats", {}, NoWay, NoWay)
    /\ UNCHANGED <<predictorVars, directoryVars, victim, aborted, touches,
                   searches>>

NextOps ==
    \/ FindVictim
    \/ FindVictimWithContext
    \/ TrainOnHit
    \/ TrainOnEviction
    \/ Access
    \/ GetStats

SpecOps == Init /\ [][NextOps]_vars

---------------------------------------------------------------------------
(* A directory with the LRUVictimFinder installed: victim lookups with and *)
(* without a context on sets of every valid, locked and recency state      *)

\* faulty variant of DirectoryFindVictimWithContext: no type switch, the
\* context always goes to the perceptron
DirectoryFindVictimWithContext_NoTypeSwitch(finder, s, addr) ==
    FindVictimWithContextIn(s, addr)

\* DirectoryImpl.FindVictimWithContext on the set s: the perceptron's
\* FindVictimWithContext if the installed finder is a PerceptronVictimFinder,
\* d.victimFinder.FindVictim(set) otherwise
DirectoryFindVictimWithContext(finder, s, addr) ==
    IF finder = "PerceptronVictimFinder"
    THEN FindVictimWithContextIn(s, addr)
    ELSE LET v == LRUFindVictim(Sets[s])
         IN /\ IF v = Panic
               THEN /\ aborted' = TRUE
                    /\ victim' = NilBlock
               ELSE /\ victim' = v
                    /\ UNCHANGED aborted
            /\ lastOp' = Op("FindVictimWithContext", addr, s, NoWay)
            /\ UNCHANGED <<predictorVars, directoryVars, touches>>

\* the record of a victim lookup: the method called, its context address
\* and the block it returned
Lookup(name, addr, block) == [name |-> name, addr |-> addr, victim |-> block]

\* DirectoryImpl.FindVictim with an LRUVictimFinder installed, the call
\* appended to searches
FindVictimLRU ==
    /\ ~aborted
    /\ NumSets > 0
    /\ Len(searches) < MaxLRULookups
    /\ LET v == LRUFindVictim(Sets[getSet(0)])
       IN /\ IF v = Panic
             THEN /\ aborted' = TRUE
                  /\ victim' = NilBlock
                  /\ UNCHANGED searches
             ELSE /\ victim' = v
                  /\ searches' = Append(searches, Lookup("FindVictim", {}, v))
                  /\ UNCHANGED aborted
    /\ lastOp' = Op("FindVictim", {}, getSet(0), NoWay)
    /\ UNCHANGED <<predictorVars, directoryVars, touches>>

\* DirectoryImpl.FindVictimWithContext with an LRUVictimFinder installed,
\* for the addresses SelAddrs, the call appended to searches
FindVictimWithContextLRU ==
    /\ ~aborted
    /\ NumSets > 0
    /\ Len(searches) < MaxLRULookups
    /\ \E addr \in SelAddrs :
          /\ DirectoryFindVictimWithContext("LRUVictimFinder", getSet(0), addr)
          /\ searches' =
                 IF aborted' THEN searches
                 ELSE Append(searches,
                             Lookup("FindVictimWithContext", addr, victim'))

InitLRU ==
    /\ \E p \in Params, lr \in SelLearningRates : NewPredictor(p, lr)
    /\ \E w \in SelWays :
          /\ NumSets = 1
          /\ NumWays = w
          /\ \E valid \in [0 .. w - 1 -> BOOLEAN],
                locked \in [0 .. w - 1 -> BOOLEAN],
                bits \in TouchedBits(w) :
                Sets = DirectorySets(1, w, [i \in {0} |-> valid],
                                     [i \in {0} |-> locked],
                                     [i \in {0} |-> bits])
    /\ lastOp = Op("New", {}, NoWay, NoWay)
    /\ victim = NilBlock
    /\ aborted = FALSE
    /\ touches = <<>>
    /\ searches = <<>>

NextLRU ==
    \/ FindVictimLRU
    \/ FindVictimWithContextLRU

SpecLRU == InitLRU /\ [][NextLRU]_vars

---------------------------------------------------------------------------
(* A stream of misses on one full, unlocked set: a victim search, a Visit  *)
(* of the returned block, and so on without end; the predictor is new and  *)
(* never trained, so every score is 0. totalPredictions is counted up to   *)
(* MaxMissSearches and kept there: the stream has no last search           *)

MissWays == {4, 8}

\* FindVictimWithContext for the addresses SelAddrs, after NewDirectory or a
\* Visit
FindVictimWithContextMiss ==
    /\ ~aborted
    /\ NumSets > 0
    /\ lastOp.name # "FindVictimWithContext"
    /\ \E addr \in SelAddrs :
          FindVictimWithContextCounting(
              getSet(0), addr,
              IF totalPredictions < MaxMissSearches
              THEN totalPredictions + 1 ELSE totalPredictions)
    /\ UNCHANGED searches

\* Visit of the block the last search returned
VisitVictim ==
    /\ ~aborted
    /\ lastOp.name = "FindVictimWithContext"
    /\ victim # NilBlock
    /\ VisitBlock(lastOp.set, victim)
    /\ UNCHANGED <<touches, searches>>

InitMiss ==
    /\ \E p \in Params : NewPredictor(p, DefaultLearningRate)
    /\ \E w \in MissWays :
          /\ NumSets = 1
          /\ NumWays = w
          /\ \E bits \in TouchedBits(w) :
                Sets = DirectorySets(1, w,
                           [i \in {0} |-> [j \in 0 .. w - 1 |-> TRUE]],
                           [i \in {0} |-> [j \in 0 .. w - 1 |-> FALSE]],
                           [i \in {0} |-> bits])
    /\ lastOp = Op("New", {}, NoWay, NoWay)
    /\ victim = NilBlock
    /\ aborted = FALSE
    /\ touches = <<>>
    /\ searches = <<>>

NextMiss ==
    \/ FindVictimWithContextMiss
    \/ VisitVictim

\* the stream goes on: a search or a Visit is always taken
SpecMiss == InitMiss /\ [][NextMiss]_vars /\ WF_vars(NextMiss)

---------------------------------------------------------------------------
(* Learning one address: zero or more TrainOnEviction calls for it, then   *)
(* the pair FindVictimWithContext, TrainOnHit for it again and again, on a *)
(* predictor constructed with the default parameters                       *)

LearnAddrs == {{0}, {0, 17}, {0, 40}}

\* the calls before the pairs: TrainOnEviction for the address of the run
TrainOnEvictionFirst ==
    /\ ~aborted
    /\ lastOp.name \in {"New", "TrainOnEviction"}
    /\ trainingSampleCounter < MaxWarmUp
    /\ \E addr \in LearnAddrs :
          /\ lastOp.name # "New" => lastOp.addr = addr
          /\ TrainCall("TrainOnEviction", addr, FALSE)

\* the first call of a pair: FindVictimWithContext for the address of the run
FindVictimWithContextLearn ==
    /\ ~aborted
    /\ NumSets > 0
    /\ lastOp.name # "FindVictimWithContext"
    /\ totalPredictions < MaxLearnPairs
    /\ \E addr \in LearnAddrs :
          /\ lastOp.name # "New" => lastOp.addr = addr
          /\ FindVictimWithContextIn(getSet(0), addr)
    /\ UNCHANGED searches

\* the second call of a pair: TrainOnHit for the address just searched
TrainOnHitLearn ==
    /\ ~aborted
    /\ lastOp.name = "FindVictimWithContext"
    /\ TrainCall("TrainOnHit", lastOp.addr, TRUE)

InitLearn ==
    /\ NewPredictor(<<DefaultThreshold, DefaultTheta>>, DefaultLearningRate)
    /\ NewDirectory(1, 2)
    /\ lastOp = Op("New", {}, NoWay, NoWay)
    /\ victim = NilBlock
    /\ aborted = FALSE
    /\ touches = <<>>
    /\ searches = <<>>

NextLearn ==
    \/ TrainOnEvictionFirst
    \/ FindVictimWithContextLearn
    \/ TrainOnHitLearn

\* the pairs are repeated: a pair that can be made is made
SpecLearn ==
    /\ InitLearn
    /\ [][NextLearn]_vars
    /\ WF_vars(FindVictimWithContextLearn \/ TrainOnHitLearn)

---------------------------------------------------------------------------
(* The directory: NewDirectory, then Reset, Lookup, FindVictim,            *)
(* FindVictimWithContext and Visit on directories of one and two sets,     *)
(* whose blocks the cache has written or locked                            *)

\* set counts and way counts of the directories
DirShapes == {<<1, 8>>, <<2, 2>>, <<2, 3>>, <<2, 4>>}

\* the record of a Visit: the set and the way of the block
Touch(s, j) == [set |-> s, way |-> j]

\* Visit of any block of any set, the call appended to touches
VisitDir ==
    /\ ~aborted
    /\ Len(touches) < MaxDirTouches
    /\ \E s \in DOMAIN Sets : \E j \in DOMAIN Sets[s].Blocks :
          /\ VisitBlock(s, j)
          /\ touches' = Append(touches, Touch(Sets[s].Blocks[j].SetID,
                                              Sets[s].Blocks[j].WayID))
    /\ UNCHANGED searches

\* DirectoryImpl.Reset
ResetDir ==
    /\ ~aborted
    /\ lastOp.name # "Reset"
    /\ Sets' = Reset(NumSets, NumWays)
    /\ lastOp' = Op("Reset", {}, NoWay, NoWay)
    /\ victim' = NilBlock
    /\ touches' = <<>>
    /\ UNCHANGED <<predictorVars, NumSets, NumWays, aborted, searches>>

\* DirectoryImpl.Lookup: a valid block of the set of reqAddr whose Tag and
\* PID match (any valid block may), or nil; the way is recorded in lastOp
DirectoryLookup ==
    /\ ~aborted
    /\ NumSets > 0
    /\ \E reqAddr \in {0, BlockSize} :
          LET s == getSet(reqAddr)
          IN \E j \in {k \in DOMAIN Sets[s].Blocks :
                          Sets[s].Blocks[k].IsValid} \cup {NoWay} :
                lastOp' = Op("Lookup", {}, s, j)
    /\ UNCHANGED <<predictorVars, directoryVars, victim, aborted, touches,
                   searches>>

\* DirectoryImpl.FindVictimWithContext with a PerceptronVictimFinder
\* installed, for the address TrainedAddr
FindVictimWithContextDir ==
    /\ ~aborted
    /\ NumSets > 0
    /\ totalPredictions < MaxSelPredictions
    /\ \E reqAddr \in {0, BlockSize} :
          FindVictimWithContextIn(getSet(reqAddr), TrainedAddr)
    /\ UNCHANGED searches

InitDir ==
    /\ NewPredictor(<<DefaultThreshold, DefaultTheta>>, DefaultLearningRate)
    /\ \E shape \in DirShapes, valid \in BOOLEAN, locked \in BOOLEAN :
          LET n == shape[1]
              w == shape[2]
          IN /\ NumSets = n
             /\ NumWays = w
             /\ Sets = DirectorySets(n, w,
                           [i \in 0 .. n - 1 |-> [j \in 0 .. w - 1 |-> valid]],
                           [i \in 0 .. n - 1 |->
                               [j \in 0 .. w - 1 |-> locked /\ j = 0]],
                           [i \in 0 .. n - 1 |-> 0])
    /\ lastOp = Op("New", {}, NoWay, NoWay)
    /\ victim = NilBlock
    /\ aborted = FALSE
    /\ touches = <<>>
    /\ searches = <<>>

NextDir ==
    \/ VisitDir
    \/ ResetDir
    \/ DirectoryLookup
    \/ FindVictim
    \/ FindVictimWithContextDir

SpecDir == InitDir /\ [][NextDir]_vars

---------------------------------------------------------------------------
(* Filling a set: NewDirectory, then victim searches, each returned block  *)
(* written by the cache pipeline (marked valid, then visited); the         *)
(* predictor is new or has applied one training for TrainedAddr            *)

FillWays == {1, 2, 3, 4}

\* the record of a victim search: its context address, its score and the
\* block it returned
Search(addr, sum, block) == [addr |-> addr, sum |-> sum, victim |-> block]

\* FindVictimWithContext for the addresses SelAddrs, the call appended to
\* searches
FindVictimWithContextInOrder ==
    /\ ~aborted
    /\ NumSets > 0
    /\ totalPredictions < MaxFillSearches
    /\ \E addr \in SelAddrs :
          /\ FindVictimWithContextIn(getSet(0), addr)
          /\ searches' = Append(searches,
                                Search(addr, lastPredictionSum', victim'))

\* the cache pipeline writes the block the last search returned: it marks
\* the block valid and calls Visit on it
Fill ==
    /\ ~aborted
    /\ lastOp.name = "FindVictimWithContext"
    /\ victim # NilBlock
    /\ LET block == Sets[lastOp.set].Blocks[victim]
           set == Sets[block.SetID]
       IN /\ Sets' = [Sets EXCEPT
                         ![block.SetID].Blocks[block.WayID].IsValid = TRUE,
                         ![block.SetID].PseudoLRUBits =
                             updatePseudoLRU(set.PseudoLRUBits,
                                             len(set.Blocks), block.WayID)]
          /\ lastOp' = Op("Fill", {}, block.SetID, block.WayID)
    /\ victim' = NilBlock
    /\ searches' = <<>>
    /\ UNCHANGED <<predictorVars, NumSets, NumWays, aborted, touches>>

InitFill ==
    /\ \E p \in Params, lr \in SelLearningRates :
          \/ NewPredictor(p, lr)
          \/ \E actualReuse \in BOOLEAN :
                TrainedPredictor(p, lr, TrainedAddr, actualReuse)
    /\ \E w \in FillWays : NewDirectory(1, w)
    /\ lastOp = Op("New", {}, NoWay, NoWay)
    /\ victim = NilBlock
    /\ aborted = FALSE
    /\ touches = <<>>
    /\ searches = <<>>

NextFill ==
    \/ FindVictimWithContextInOrder
    \/ Fill

SpecFill == InitFill /\ [][NextFill]_vars

---------------------------------------------------------------------------
(* PerceptronVictimFinder, prediction-cache version                        *)
(* (perceptron_victimfinder.go)                                            *)

findPseudoLRUVictimPC(set) ==
    LET numWays == len(set.Blocks) IN
    IF PseudoLRUPanics(numWays) THEN Panic
    ELSE LET victimWay == getPseudoLRUVictim(set.PseudoLRUBits, numWays) IN
         IF victimWay < numWays /\ ~set.Blocks[victimWay].IsLocked
         THEN victimWay
         ELSE IF FirstUnlocked(set.Blocks) # NoWay
              THEN FirstUnlocked(set.Blocks)
              ELSE NilBlock

selectVictimPC(set, predictNoReuse, predictionSum, th) ==
    IF FirstFree(set.Blocks) # NoWay
    THEN FirstFree(set.Blocks)
    ELSE LET isConfident == abs(predictionSum) >= th IN
         IF isConfident
         THEN IF predictNoReuse
              THEN IF FirstUnlocked(set.Blocks) # NoWay
                   THEN FirstUnlocked(set.Blocks)
                   ELSE IF len(set.Blocks) > 0 THEN 0 ELSE NilBlock
              ELSE findPseudoLRUVictimPC(set)
         ELSE findPseudoLRUVictimPC(set)

CachedPrediction(predictNoReuse, sum) ==
    [predictNoReuse |-> predictNoReuse, sum |-> sum]

\* p.predictionCache[addr] = c
CachePut(cache, addr, c) ==
    [a \in DOMAIN cache \cup {addr} |-> IF a = addr THEN c ELSE cache[a]]

\* delete(p.predictionCache, addr)
CacheDelete(cache, addr) == [a \in DOMAIN cache \ {addr} |-> cache[a]]

FindVictimWithContextPC ==
    /\ ~aborted
    /\ NumSets > 0
    /\ totalPredictions < MaxPredictions
    /\ \E addr \in SelAddrs :
          LET s == getSet(0)
              sum == calculatePredictionSum(weights, addr)
              predictNoReuse == sum >= threshold
              v == selectVictimPC(Sets[s], predictNoReuse, sum, theta)
          IN /\ predictionCache' =
                    CachePut(predictionCache, addr,
                             CachedPrediction(predictNoReuse, sum))
             /\ IF v = Panic
                THEN /\ aborted' = TRUE
                     /\ victim' = NilBlock
                     /\ UNCHANGED totalPredictions
                ELSE /\ victim' = v
                     /\ totalPredictions' = totalPredictions + 1
                     /\ UNCHANGED aborted
             /\ lastOp' = Op("FindVictimWithContext", addr, s, NoWay)
    /\ UNCHANGED <<weights, threshold, theta, learningRate,
                   correctPredictions, trainingSampleCounter,
                   lastPredictionAddr, lastPredictionSum, directoryVars,
                   touches, searches>>

\* faulty variant of TrainPC: the cached prediction is not deleted after the
\* training
TrainPC_KeepsCachedPrediction(name, addr, actualReuse) ==
    /\ IF addr \in DOMAIN predictionCache
       THEN LET cached == predictionCache[addr]
                r == trainWithSum(weights, correctPredictions, addr,
                                  cached.predictNoReuse, cached.sum,
                                  actualReuse)
            IN /\ weights' = r.weights
               /\ correctPredictions' = r.correctPredictions
               /\ UNCHANGED predictionCache
       ELSE UNCHANGED <<weights, correctPredictions, predictionCache>>
    /\ lastOp' = Op(name, addr, NoWay, NoWay)
    /\ UNCHANGED <<threshold, theta, learningRate, totalPredictions,
                   trainingSampleCounter, lastPredictionAddr,
                   lastPredictionSum, directoryVars, victim, aborted,
                   touches, searches>>

\* TrainOnHit, TrainOnEviction and Access of the prediction-cache version
\* share this body; they differ in the outcome they pass to trainWithSum
TrainPC(name, addr, actualReuse) ==
    /\ IF addr \in DOMAIN predictionCache
       THEN LET cached == predictionCache[addr]
                r == trainWithSum(weights, correctPredictions, addr,
                                  cached.predictNoReuse, cached.sum,
                                  actualReuse)
            IN /\ weights' = r.weights
               /\ correctPredictions' = r.correctPredictions
               /\ predictionCache' = CacheDelete(predictionCache, addr)
       ELSE UNCHANGED <<weights, correctPredictions, predictionCache>>
    /\ lastOp' = Op(name, addr, NoWay, NoWay)
    /\ UNCHANGED <<threshold, theta, learningRate, totalPredictions,
                   trainingSampleCounter, lastPredictionAddr,
                   lastPredictionSum, directoryVars, victim, aborted,
                   touches, searches>>

TrainOnHitPC ==
    /\ ~aborted
    /\ \E addr \in SelAddrs : TrainPC("TrainOnHit", addr, TRUE)

TrainOnEvictionPC ==
    /\ ~aborted
    /\ \E addr \in SelAddrs : TrainPC("TrainOnEviction", addr, FALSE)

AccessPC ==
    /\ ~aborted
    /\ \E addr \in SelAddrs : TrainPC("Access", addr, TRUE)

PCWays == {1, 2}

InitPC ==
    /\ \E p \in Params, lr \in SelLearningRates : NewPredictor(p, lr)
    /\ \E w \in PCWays :
          /\ NumSets = 1
          /\ NumWays = w
          /\ \E valid \in [0 .. w - 1 -> BOOLEAN],
                locked \in [0 .. w - 1 -> BOOLEAN],
                bits \in TouchedBits(w) :
                Sets = DirectorySets(1, w, [i \in {0} |-> valid],
                                     [i \in {0} |-> locked],
                                     [i \in {0} |-> bits])
    /\ lastOp = Op("New", {}, NoWay, NoWay)
    /\ victim = NilBlock
    /\ aborted = FALSE
    /\ touches = <<>>
    /\ searches = <<>>

NextPC ==
    \/ FindVictimWithContextPC
    \/ TrainOnHitPC
    \/ TrainOnEvictionPC
    \/ AccessPC

SpecPC == InitPC /\ [][NextPC]_vars

---------------------------------------------------------------------------
(* Properties *)

\* the state follows a FindVictimWithContext call
Searched == lastOp.name = "FindVictimWithContext"

\* the set that call was given
SearchedSet == Sets[lastOp.set]

\* the prediction of that call is 'confident no-reuse'
ConfidentNoReuse ==
    /\ abs(lastPredictionSum) >= theta
    /\ lastPredictionSum >= threshold

FreeWays(set) ==
    {j \in DOMAIN set.Blocks :
        ~set.Blocks[j].IsValid /\ ~set.Blocks[j].IsLocked}

UnlockedWays(set) == {j \in DOMAIN set.Blocks : ~set.Blocks[j].IsLocked}

Lowest(S) == CHOOSE j \in S : \A k \in S : j <= k

\* C1: whatever the positive learning rate, after any sequence of
\* FindVictimWithContext, TrainOnHit, TrainOnEviction and Access calls every
\* one of the 32 weights lies in [-32, +31].
C1_WeightsInRange ==
    \A i \in 0 .. NumWeights - 1 : weights[i] >= -32 /\ weights[i] <= 31

\* C2: on a non-empty set FindVictimWithContext returns a block of
\* set.Blocks (never nil, never a panic) whose WayID lies in [0, W).
C2_VictimInSet ==
    (Searched /\ len(SearchedSet.Blocks) > 0) =>
        /\ ~aborted
        /\ victim \in 0 .. len(SearchedSet.Blocks) - 1
        /\ SearchedSet.Blocks[victim].WayID \in 0 .. NumWays - 1

\* C2 witness: a 4-way set, all valid, only way 3 unlocked, the recency
\* bits pointing at the locked way 1; the search returned way 3.
C2_Witness ==
    /\ Searched
    /\ NumWays = 4
    /\ FreeWays(SearchedSet) = {}
    /\ UnlockedWays(SearchedSet) = {3}
    /\ SearchedSet.PseudoLRUBits = 2
    /\ ~ConfidentNoReuse
    /\ victim = 3

\* C3: whenever the set contains an unlocked block, FindVictimWithContext
\* returns an unlocked block (so with exactly one unlocked way, that way).
C3_UnlockedVictim ==
    (Searched /\ UnlockedWays(SearchedSet) # {}) =>
        /\ ~aborted
        /\ victim \in UnlockedWays(SearchedSet)

\* C3 witness: a 4-way set, all valid, exactly way 2 unlocked, a confident
\* prediction of reuse and recency bits pointing at the locked way 0; the
\* search returned way 2.
C3_Witness ==
    /\ Searched
    /\ NumWays = 4
    /\ FreeWays(SearchedSet) = {}
    /\ UnlockedWays(SearchedSet) = {2}
    /\ SearchedSet.PseudoLRUBits = 0
    /\ abs(lastPredictionSum) >= theta
    /\ lastPredictionSum < threshold
    /\ victim = 2

\* C4: if a block of the set is invalid and unlocked, FindVictimWithContext
\* returns the lowest-indexed such block, whatever the score, theta,
\* threshold and the recency bits are.
C4_FirstInvalidUnlocked ==
    (Searched /\ FreeWays(SearchedSet) # {}) =>
        /\ ~aborted
        /\ victim = Lowest(FreeWays(SearchedSet))

\* C4 witness: confident no-reuse, ways 0 and 1 valid and unlocked, ways 2
\* and 3 invalid and unlocked, recency bits pointing at way 1; the search
\* returned way 2.
C4_Witness ==
    /\ Searched
    /\ NumWays = 4
    /\ ConfidentNoReuse
    /\ FreeWays(SearchedSet) = {2, 3}
    /\ UnlockedWays(SearchedSet) = {0, 1, 2, 3}
    /\ SearchedSet.PseudoLRUBits = 2
    /\ victim = 2

\* C5: when no block is invalid-and-unlocked, some block is unlocked and the
\* score s has |s| >= theta and s >= threshold, FindVictimWithContext returns
\* the lowest-indexed unlocked block, ignoring the recency bits.
C5_ConfidentNoReuseFirstUnlocked ==
    (/\ Searched
     /\ FreeWays(SearchedSet) = {}
     /\ UnlockedWays(SearchedSet) # {}
     /\ ConfidentNoReuse) =>
        /\ ~aborted
        /\ victim = Lowest(UnlockedWays(SearchedSet))

\* C5 witness: a fully valid, fully unlocked 4-way set whose recency bits
\* point at way 2, a confident no-reuse score; the search returned way 0.
C5_Witness ==
    /\ Searched
    /\ NumWays = 4
    /\ \A j \in 0 .. 3 : SearchedSet.Blocks[j].IsValid
    /\ UnlockedWays(SearchedSet) = {0, 1, 2, 3}
    /\ SearchedSet.PseudoLRUBits = 1
    /\ ConfidentNoReuse
    /\ victim = 0

\* the way the recency bits of the searched set point at
C6_PseudoLRUWay ==
    LET bits == SearchedSet.PseudoLRUBits IN
    CASE NumWays = 2 -> bits % 2
      [] NumWays = 4 ->
            IF bits % 2 = 0 THEN (bits \div 2) % 2 ELSE 2 + ((bits \div 4) % 2)
      [] OTHER -> bits % NumWays

\* C6: on a non-empty set with no invalid-and-unlocked block, when the
\* prediction is not 'confident no-reuse', FindVictimWithContext returns the
\* block at the PseudoLRU way if that block is unlocked, otherwise the
\* lowest-indexed unlocked block, otherwise block 0.
C6_PseudoLRUOtherwise ==
    (/\ Searched
     /\ len(SearchedSet.Blocks) > 0
     /\ FreeWays(SearchedSet) = {}
     /\ ~ConfidentNoReuse) =>
        /\ ~aborted
        /\ victim = IF C6_PseudoLRUWay \in UnlockedWays(SearchedSet)
                    THEN C6_PseudoLRUWay
                    ELSE IF UnlockedWays(SearchedSet) # {}
                         THEN Lowest(UnlockedWays(SearchedSet))
                         ELSE 0

\* C6 witness: a confident prediction of reuse on a fully valid 4-way set
\* with ways 1 and 3 unlocked and recency bits pointing at way 3; the search
\* returned way 3, not the first unlocked way 1.
C6_Witness ==
    /\ Searched
    /\ NumWays = 4
    /\ FreeWays(SearchedSet) = {}
    /\ UnlockedWays(SearchedSet) = {1, 3}
    /\ SearchedSet.PseudoLRUBits = 5
    /\ abs(lastPredictionSum) >= theta
    /\ lastPredictionSum < threshold
    /\ victim = 3

\* C7: on a non-empty set in which every block is locked,
\* FindVictimWithContext returns set.Blocks[0] and never nil, in the sampling
\* version and in the prediction-cache version alike.
C7_AllLockedFirstBlock ==
    (/\ Searched
     /\ len(SearchedSet.Blocks) > 0
     /\ UnlockedWays(SearchedSet) = {}) =>
        /\ ~aborted
        /\ victim = 0

\* C8: FindVictimWithContext on an empty set completes without aborting,
\* for every score.
C8_EmptySetNoAbort ==
    (Searched /\ len(SearchedSet.Blocks) = 0) => ~aborted

\* the state follows a touch of a way of a 2-, 4- or 8-way set
Touched == lastOp.name = "Visit" /\ NumWays \in {2, 4, 8}

\* the way the victim lookup yields on the touched set
TouchedVictim ==
    getPseudoLRUVictim(Sets[lastOp.set].PseudoLRUBits, NumWays)

\* C9: for W in {2, 4, 8}, from any recency bits, the victim lookup right
\* after a touch of way w never yields w.
C9_TouchedNotVictim == Touched => TouchedVictim # lastOp.way

\* C9 witness: an 8-way set on which way 5 was just touched while the bits
\* of the left half are set; the lookup yields way 4.
C9_Witness ==
    /\ Touched
    /\ NumWays = 8
    /\ lastOp.way = 5
    /\ Bit(Sets[lastOp.set].PseudoLRUBits, 1) = 1
    /\ Bit(Sets[lastOp.set].PseudoLRUBits, 4) = 1
    /\ TouchedVictim = 4

\* C10: for W in {4, 8}, right after a touch of way w the victim lookup
\* yields a way of the half of the set that does not contain w.
C10_VictimInOtherHalf ==
    (Touched /\ NumWays \in {4, 8}) =>
        (lastOp.way < NumWays \div 2) # (TouchedVictim < NumWays \div 2)

\* C11: on a 4-way set whose blocks are all valid and unlocked, with all
\* weights zero, the victim search that follows touches of ways 1, 3, 0, 2
\* in that order returns way 1
C11_VictimAfterTouches1302 ==
    (Searched /\ NumWays = 4 /\ touches = <<1, 3, 0, 2>>) => victim = 1

\* the last call was a touch of a way of a 4-way set
Touched4 == lastOp.name = "Visit" /\ NumWays = 4

\* the tree bit of the pair of way w of a 4-way set
PairBit(w) == IF w < 2 THEN 1 ELSE 2

\* C12: on a 4-way set touch(w) sets bit 0 to 1 if w >= 2 and to 0
\* otherwise, and sets the bit of w's pair to 1 if w is the lower member of
\* the pair (w in {0, 2}) and to 0 otherwise
C12_TouchBits4Way ==
    Touched4 =>
        LET bits == Sets[lastOp.set].PseudoLRUBits
            w == lastOp.way
        IN /\ Bit(bits, 0) = (IF w >= 2 THEN 1 ELSE 0)
           /\ Bit(bits, PairBit(w)) = (IF w \in {0, 2} THEN 1 ELSE 0)

\* C12 as stated: the pair bit is 1 if w is the higher member of the pair
\* (w in {1, 3}) and 0 otherwise
C12_TouchBits4WayHigherMember ==
    Touched4 =>
        LET bits == Sets[lastOp.set].PseudoLRUBits
            w == lastOp.way
        IN /\ Bit(bits, 0) = (IF w >= 2 THEN 1 ELSE 0)
           /\ Bit(bits, PairBit(w)) = (IF w \in {1, 3} THEN 1 ELSE 0)

\* way 3 touched after way 0: bit 0 and the left pair's bit are set, the
\* right pair's bit is clear
C12_Witness ==
    /\ Touched4
    /\ lastOp.way = 3
    /\ Sets[lastOp.set].PseudoLRUBits = 3

\* the last call was a touch of a way of a set with the round-robin fallback
TouchedRoundRobin == lastOp.name = "Visit" /\ NumWays \notin {2, 4, 8}

\* C13: for an associativity W outside {2, 4, 8} touch(w) sets the counter
\* to (w + 1) mod W and the victim lookup returns counter mod W, so the
\* next victim after touch(w) is way (w + 1) mod W
C13_RoundRobinAfterTouch ==
    TouchedRoundRobin =>
        LET bits == Sets[lastOp.set].PseudoLRUBits
        IN /\ bits = (lastOp.way + 1) % NumWays
           /\ getPseudoLRUVictim(bits, NumWays) = (lastOp.way + 1) % NumWays

\* bit vectors that differ from bits only in bits numWays-1 and above
SameTreeBits(bits, numWays) ==
    {bits + hi * Pow2(numWays - 1) : hi \in {1, 2, 3}}

\* C14: from PseudoLRUBits = 0, after any touches only tree-node bits are
\* set (PseudoLRUBits < 2^(W-1) for W in {2, 4, 8}, PseudoLRUBits < W for
\* other W), and for W in {2, 4, 8} the victim lookup gives the same way
\* for every bit vector that agrees on bits 0..W-2
C14_OnlyTreeBits ==
    \A s \in DOMAIN Sets :
        LET bits == Sets[s].PseudoLRUBits
            W == len(Sets[s].Blocks)
        IN IF W \in {2, 4, 8}
           THEN /\ bits < Pow2(W - 1)
                /\ \A other \in SameTreeBits(bits, W) :
                      getPseudoLRUVictim(other, W) = getPseudoLRUVictim(bits, W)
           ELSE bits < W

\* touches have set every tree bit of an 8-way set
C14_Witness ==
    /\ lastOp.name = "Visit"
    /\ NumWays = 8
    /\ Sets[lastOp.set].PseudoLRUBits = Pow2(NumWays - 1) - 1

\* C15: after any interleaving of FindVictimWithContext, TrainOnHit,
\* TrainOnEviction and Access, 0 <= correctPredictions <= totalPredictions
C15_CorrectAtMostTotal ==
    /\ 0 <= correctPredictions
    /\ correctPredictions <= totalPredictions

\* the step is a call of TrainOnHit, TrainOnEviction or Access
TrainingStep == lastOp'.name \in {"TrainOnHit", "TrainOnEviction", "Access"}

\* the outcome the call of the step reports: TrainOnHit and Access report a
\* reuse, TrainOnEviction reports none
StepReused == lastOp'.name # "TrainOnEviction"

\* the call of the step is one the sampling gate admits
StepAdmitted == trainingSampleCounter' % TrainSampleMod = 0

ZeroWeights == [i \in 0 .. NumWeights - 1 |-> 0]

\* the weights after the first update of a new predictor (score 0, below
\* theta), for address addr
FirstUpdate(addr, reused) ==
    [i \in 0 .. NumWeights - 1 |->
        IF i \in addr
        THEN IF reused THEN max(WeightMin, 0 - learningRate)
             ELSE min(WeightMax, learningRate)
        ELSE 0]

C17_RejectedCallChangesOnlyCounter ==
    [][(TrainingStep /\ ~StepAdmitted) =>
        /\ trainingSampleCounter' # trainingSampleCounter
        /\ UNCHANGED <<weights, lastPredictionAddr, lastPredictionSum,
                       totalPredictions, correctPredictions>>]_vars

\* the sixth training call, rejected, after a victim search and an applied
\* training
C17_Witness ==
    /\ trainingSampleCounter = TrainSampleMod + 1
    /\ lastOp.name \in {"TrainOnHit", "TrainOnEviction", "Access"}
    /\ weights # ZeroWeights
    /\ totalPredictions = 1
    /\ correctPredictions = 1
    /\ lastPredictionAddr = {0, 17}

\* the step is a training call, made after a victim search, for an address
\* other than the address of the most recent victim search
MismatchedTrainingStep ==
    /\ TrainingStep
    /\ totalPredictions > 0
    /\ lastOp'.addr # lastPredictionAddr

\* the weights after the perceptron update for address addr, in int32
UpdatedWeights(w, addr, reused) ==
    [i \in 0 .. NumWeights - 1 |->
        IF i \in addr
        THEN IF reused THEN max(WeightMin, Sub32(w[i], learningRate))
             ELSE min(WeightMax, Add32(w[i], learningRate))
        ELSE w[i]]

StepScore ==
    IF lastPredictionAddr = lastOp'.addr THEN lastPredictionSum
    ELSE calculatePredictionSum(weights, lastOp'.addr)

\* max(-32, w - lr) and min(31, w + lr) over the integers, for lr > 0
LoweredWeight(w) ==
    IF w <= learningRate + WeightMin THEN WeightMin ELSE w - learningRate

RaisedWeight(w) ==
    IF w >= WeightMax - learningRate THEN WeightMax ELSE w + learningRate

\* C19: when training fires for address a with score s and outcome reused,
\* the weights are modified iff ((s >= threshold) = reused) or |s| < theta;
\* when modified, the weights[i] with bit i of a set, i in [0,32), become
\* max(-32, w - lr) if reused and min(31, w + lr) if not; every other
\* weight is unchanged
C19_UpdateRule ==
    [][(TrainingStep /\ StepAdmitted) =>
        LET modified == ((StepScore >= threshold) = StepReused)
                            \/ abs(StepScore) < theta
        IN \A i \in 0 .. NumWeights - 1 :
              weights'[i] =
                  IF modified /\ i \in lastOp'.addr
                  THEN IF StepReused THEN LoweredWeight(weights[i])
                       ELSE RaisedWeight(weights[i])
                  ELSE weights[i]]_vars

\* C20: a training call increments correctPredictions by exactly 1 iff
\* training fires and the prediction was correct ((score >= threshold) #
\* reused), and by 0 in every other case, whether or not the weights were
\* updated
C20_CorrectCountedIffCorrect ==
    [][TrainingStep =>
        correctPredictions' =
            IF StepAdmitted /\ ((StepScore >= threshold) # StepReused)
            THEN correctPredictions + 1
            ELSE correctPredictions]_vars

\* the tenth training call, TrainOnEviction for the address with bits 0
\* and 17 whose cached score 32 is not below theta: counted correct, the
\* weights left at 16
C20_Witness ==
    /\ trainingSampleCounter = 2 * TrainSampleMod
    /\ lastOp.name = "TrainOnEviction"
    /\ lastOp.addr = {0, 17}
    /\ lastPredictionAddr = {0, 17}
    /\ lastPredictionSum = DefaultTheta
    /\ theta = DefaultTheta
    /\ weights[0] + weights[17] = DefaultTheta
    /\ correctPredictions = 2

\* the step is a training call, made after a victim search, for the address
\* of the most recent victim search
MatchedTrainingStep ==
    /\ TrainingStep
    /\ totalPredictions > 0
    /\ lastOp'.addr = lastPredictionAddr

\* C21: when FindVictimWithContext(a) is followed by a training call for a
\* that fires, with no FindVictimWithContext for another address in
\* between, the training decision (predicted no-reuse, confidence) uses the
\* score that search stored and not a score recomputed from the current
\* weights, also when training calls in between have changed the weights
C21_TrainingUsesStoredScore ==
    [][(MatchedTrainingStep /\ StepAdmitted) =>
        LET s == lastPredictionSum
            correct == (s >= threshold) # StepReused
        IN /\ correctPredictions' =
                  correctPredictions + (IF correct THEN 1 ELSE 0)
           /\ weights' = IF ~correct \/ abs(s) < theta
                         THEN UpdatedWeights(weights, lastOp'.addr, StepReused)
                         ELSE weights]_vars

\* the search for the address with bits 0 and 17 stored the score 0; the
\* fifth training call raised both weights to 16 and the tenth, with the
\* stored score 0 below theta where the current score 32 is not, raised
\* them to 31
C21_Witness ==
    /\ trainingSampleCounter = 2 * TrainSampleMod
    /\ lastOp.name = "TrainOnEviction"
    /\ lastOp.addr = {0, 17}
    /\ lastPredictionAddr = {0, 17}
    /\ lastPredictionSum = 0
    /\ theta = DefaultTheta
    /\ learningRate \in LearningRates \ {DefaultLearningRate, MaxInt32}
    /\ weights[0] = WeightMax
    /\ weights[17] = WeightMax

\* the int32 sum of w[i] over the positions i of S
RECURSIVE WeightSum(_, _)
WeightSum(w, S) ==
    IF S = {} THEN 0
    ELSE LET i == CHOOSE j \in S : TRUE
         IN Add32(w[i], WeightSum(w, S \ {i}))

\* the low 32 bits of an address
Low32(addr) == addr \cap (0 .. NumWeights - 1)

\* C22: the score of an address is the sum of weights[i] over exactly the
\* bits i in [0, 32) set in the address: 0 for address 0 and for every
\* address on a new predictor, the same for addresses with the same low 32
\* bits, and with weights[k] = +31 and all others 0 it is +31 iff bit k is
\* set and 0 otherwise; a victim search stores that score
C22_ScoreIsSumOfSetBitWeights ==
    /\ \A a \in Addrs :
          /\ calculatePredictionSum(weights, a) = WeightSum(weights, Low32(a))
          /\ a = {} => calculatePredictionSum(weights, a) = 0
          /\ weights = ZeroWeights => calculatePredictionSum(weights, a) = 0
          /\ \A b \in Addrs :
                Low32(a) = Low32(b) =>
                    calculatePredictionSum(weights, a) =
                        calculatePredictionSum(weights, b)
          /\ \A k \in 0 .. NumWeights - 1 :
                weights = [ZeroWeights EXCEPT ![k] = WeightMax] =>
                    calculatePredictionSum(weights, a) =
                        (IF k \in a THEN WeightMax ELSE 0)
    /\ Searched =>
          lastPredictionSum = WeightSum(weights, Low32(lastPredictionAddr))

\* a search for the address with bits 0 and 17 on a predictor whose weights
\* 0 and 17 are both -16
C22_Witness ==
    /\ Searched
    /\ lastOp.addr = {0, 17}
    /\ weights[0] = WeightMin \div 2
    /\ weights[17] = WeightMin \div 2
    /\ lastPredictionSum = WeightMin

\* a search for the address with bits 0 and 40 on a predictor whose only
\* non-zero weight is weights[0] = +31
C22_WitnessSingleBit ==
    /\ Searched
    /\ lastOp.addr = {0, 40}
    /\ weights = [ZeroWeights EXCEPT ![0] = WeightMax]
    /\ lastPredictionSum = WeightMax

\* C23: scoring has no effect on later scores: victim searches made back to
\* back with the same address on an unchanged set compute the same score
\* and return the same block
C23_RepeatedSearchSameResult ==
    \A i \in DOMAIN searches : \A j \in DOMAIN searches :
        searches[i].addr = searches[j].addr =>
            /\ searches[i].sum = searches[j].sum
            /\ searches[i].victim = searches[j].victim

\* two searches for TrainedAddr back to back on a full 4-way set, with a
\* non-zero score, after a touch of way 3
C23_Witness ==
    /\ Len(searches) = 2
    /\ searches[1].addr = TrainedAddr
    /\ searches[2].addr = TrainedAddr
    /\ searches[2].sum # 0
    /\ NumWays = 4
    /\ \A j \in DOMAIN Sets[0].Blocks : Sets[0].Blocks[j].IsValid
    /\ searches[2].victim # 0

\* the step is a FindVictimWithContext call that returns
SearchStep == lastOp'.name = "FindVictimWithContext" /\ ~aborted'

\* C24: every FindVictimWithContext call, on every branch including the
\* invalid-slot fill, increments totalPredictions by exactly 1 and sets the
\* cached last address and last score to the context address and its
\* score; it leaves the set's PseudoLRUBits, every block's valid and locked
\* flags, the sample counter and correctPredictions unchanged
C24_SearchEffect ==
    [][SearchStep =>
        /\ totalPredictions' = totalPredictions + 1
        /\ lastPredictionAddr' = lastOp'.addr
        /\ lastPredictionSum' = WeightSum(weights, Low32(lastOp'.addr))
        /\ UNCHANGED <<Sets, trainingSampleCounter, correctPredictions>>]_vars

\* a search with a non-zero score that returned an invalid block of a set
\* with a locked block and touched recency bits
C24_Witness ==
    /\ Searched
    /\ totalPredictions = 1
    /\ victim # NilBlock
    /\ ~SearchedSet.Blocks[victim].IsValid
    /\ \E j \in DOMAIN SearchedSet.Blocks : SearchedSet.Blocks[j].IsLocked
    /\ SearchedSet.PseudoLRUBits # 0
    /\ lastPredictionAddr = TrainedAddr
    /\ lastPredictionSum # 0
    /\ trainingSampleCounter = TrainSampleMod

\* the step is a training call that fires, for the address of the victim
\* search that was the call before it, an address with a bit set in its low
\* 32 bits
TrainingAfterSearchStep ==
    /\ TrainingStep
    /\ StepAdmitted
    /\ Searched
    /\ lastOp'.addr = lastOp.addr
    /\ Low32(lastOp.addr) # {}

\* the stored prediction was wrong or not confident: trainWithSum updates
StepUpdates ==
    ((lastPredictionSum >= threshold) = StepReused)
        \/ abs(lastPredictionSum) < theta

Evicted == lastOp.name = "TrainOnEviction"

\* the predictor has the default parameters
DefaultParameters ==
    /\ threshold = DefaultThreshold
    /\ theta = DefaultTheta
    /\ learningRate = DefaultLearningRate

\* the lowest multiple w of the learning rate with k * w >= theta
StopLevel(k) ==
    learningRate * ((theta + k * learningRate - 1) \div (k * learningRate))

---------------------------------------------------------------------------
\* the number of valid blocks of the set
ValidCount(set) ==
    Cardinality({j \in DOMAIN set.Blocks : set.Blocks[j].IsValid})

\* C27: cold fill order: a set that starts all invalid and unlocked and is
\* written block by block as the searches return them is filled in way
\* order: the valid blocks are always the ways 0 .. k-1, and while an
\* invalid block is left the search returns way k (way 0 on the all-invalid
\* set), whatever the address, the weights and the recency bits are
C27_ColdFillInWayOrder ==
    LET set == Sets[0]
        k == ValidCount(set)
    IN /\ \A j \in DOMAIN set.Blocks : set.Blocks[j].IsValid <=> j < k
       /\ (Searched /\ ~aborted /\ k < len(set.Blocks)) => victim = k

\* a search on a 4-way set with the ways 0, 1, 2 filled, for an address
\* the predictor is confident is not reused (on a full set that score
\* evicts way 0): the search returns way 3
C27_Witness ==
    /\ Searched
    /\ NumWays = 4
    /\ ValidCount(Sets[0]) = 3
    /\ victim = 3
    /\ lastPredictionSum >= theta
    /\ lastPredictionSum >= threshold

---------------------------------------------------------------------------
\* C28: totalPredictions, correctPredictions and the training sample
\* counter are monotonic: no step of FindVictim, FindVictimWithContext,
\* TrainOnHit, TrainOnEviction, Access or GetStats decreases any of them
C28_CountersNeverDecrease ==
    [][/\ totalPredictions' >= totalPredictions
       /\ correctPredictions' >= correctPredictions
       /\ trainingSampleCounter' >= trainingSampleCounter]_vars

\* the statistics are read after searches, an admitted training call that
\* counted a correct prediction and one that counted none
C28_Witness ==
    /\ lastOp.name = "GetStats"
    /\ totalPredictions >= 2
    /\ correctPredictions = 1
    /\ trainingSampleCounter >= 10

---------------------------------------------------------------------------
\* C29: every branch other than "confident no-reuse" degrades to the
\* PseudoLRU baseline: a search whose score is below theta in magnitude or
\* below the threshold returns the block LRUVictimFinder.FindVictim returns
\* on the same set, the sets whose PseudoLRU way is locked included
C29_DegradesToBaseline ==
    (/\ Searched
     /\ ~aborted
     /\ abs(lastPredictionSum) < theta \/ lastPredictionSum < threshold)
        => victim = LRUFindVictim(SearchedSet)

---------------------------------------------------------------------------
\* the step is a victim lookup that returns
LookupStep ==
    /\ lastOp'.name \in {"FindVictim", "FindVictimWithContext"}
    /\ ~aborted'

\* C30: backward compatibility of the context-aware interface: with an
\* LRUVictimFinder installed, a lookup changes neither the directory nor
\* the predictor, and it returns the block every earlier lookup on the set
\* returned, with or without a context and whatever the context address
C30_ContextIgnoredByBaseline ==
    [][LookupStep =>
          /\ UNCHANGED <<predictorVars, directoryVars>>
          /\ \A i \in DOMAIN searches : searches[i].victim = victim']_vars

\* FindVictim, then FindVictimWithContext with the address TrainedAddr, on a
\* full 4-way set with way 0 locked; both return an unlocked way
C30_Witness ==
    /\ Len(searches) = 2
    /\ searches[1].name = "FindVictim"
    /\ searches[2].name = "FindVictimWithContext"
    /\ searches[2].addr = TrainedAddr
    /\ NumWays = 4
    /\ \A j \in DOMAIN Sets[0].Blocks : Sets[0].Blocks[j].IsValid
    /\ Sets[0].Blocks[0].IsLocked
    /\ victim # 0

---------------------------------------------------------------------------
\* C31: in every reachable state (positive learning rate, weights starting
\* at zero) the score of every address lies in [-1024, +992], the sums of
\* 32 weights of [-32, +31], so the int32 sum and its absolute value never
\* overflow
C31_ScoreInRange ==
    \A addr \in Addrs :
        LET sum == calculatePredictionSum(weights, addr)
        IN /\ sum >= NumWeights * WeightMin
           /\ sum <= NumWeights * WeightMax

---------------------------------------------------------------------------
\* C32: on a full 4-way or 8-way set, all blocks valid and unlocked, with a
\* predictor that stays non-confident, the stream of misses (victim search,
\* Visit of the victim, repeat) eventually selects every way of the set
C32_EveryWayEventuallyVictim ==
    \A w \in 0 .. 7 : <>(w >= NumWays \/ (Searched /\ victim = w))

---------------------------------------------------------------------------
\* w XOR 1: the other way of the leaf pair of way w
PairMate(w) == IF w % 2 = 0 THEN w + 1 ELSE w - 1

\* C33: for W in {2, 4, 8}, from any recency bits, the victim lookup right
\* after a touch of way w yields exactly w XOR 1
C33_VictimIsPairMate == Touched => TouchedVictim = PairMate(lastOp.way)

\* way 2 of a 4-way set was just touched while the bit of the left pair is
\* set; the lookup yields way 3
C33_Witness ==
    /\ Touched
    /\ NumWays = 4
    /\ lastOp.way = 2
    /\ Bit(Sets[lastOp.set].PseudoLRUBits, 1) = 1
    /\ TouchedVictim = 3

---------------------------------------------------------------------------
\* C34: the baseline LRUVictimFinder.FindVictim never returns a locked
\* block when the set holds at least one unlocked block
C34_BaselineAvoidsLocked ==
    (/\ lastOp.name = "FindVictim"
     /\ ~aborted
     /\ FirstUnlocked(SearchedSet.Blocks) # NoWay)
        => /\ victim \in DOMAIN SearchedSet.Blocks
           /\ ~SearchedSet.Blocks[victim].IsLocked

---------------------------------------------------------------------------
\* the address of the call the step makes
StepAddr == lastOp'.addr

\* C35: in the prediction-cache version each FindVictimWithContext(a)
\* enables at most one training for a: a training call for an address with
\* no cached prediction changes no weight and no counter, a training call
\* leaves its address without a cached prediction, only a search caches
\* one, and correctPredictions <= totalPredictions
C35_OneTrainingPerSearch ==
    [][/\ (TrainingStep /\ StepAddr \notin DOMAIN predictionCache)
            => UNCHANGED <<weights, totalPredictions, correctPredictions,
                           trainingSampleCounter, predictionCache>>
       /\ TrainingStep => StepAddr \notin DOMAIN predictionCache'
       /\ ~SearchStep
            => DOMAIN predictionCache' \subseteq DOMAIN predictionCache
       /\ correctPredictions' <= totalPredictions']_vars

\* one search for TrainedAddr, then TrainOnEviction(TrainedAddr): the
\* prediction was counted correct, the weights were raised and the cached
\* prediction is gone
C35_Witness ==
    /\ lastOp.name = "TrainOnEviction"
    /\ lastOp.addr = TrainedAddr
    /\ totalPredictions = 1
    /\ correctPredictions = 1
    /\ weights[0] > 0
    /\ predictionCache = <<>>

---------------------------------------------------------------------------
\* the score of the address of the run is below the threshold
PredictsReuse ==
    /\ lastOp.name # "New"
    /\ calculatePredictionSum(weights, lastOp.addr) < threshold

\* the step is a call of a pair
PairStep == lastOp'.name \in {"FindVictimWithContext", "TrainOnHit"}

\* C36: learning converges on a repeated outcome: with the default
\* parameters, for an address with one of its low 32 bits set, the repeated
\* pair FindVictimWithContext(a), TrainOnHit(a) brings the score of a below
\* the threshold, and no pair brings it back
C36_HitsConverge ==
    /\ <>[]PredictsReuse
    /\ [][(PredictsReuse /\ PairStep) => PredictsReuse']_vars

\* after pairs for the address with bits 0 and 17 both weights are at -16:
\* the score is -32, a confident prediction of reuse, and training has
\* stopped moving it
C36_Witness ==
    /\ lastOp.name = "TrainOnHit"
    /\ lastOp.addr = {0, 17}
    /\ weights[0] = -16
    /\ weights[17] = -16
    /\ lastPredictionSum = -32
    /\ trainingSampleCounter % TrainSampleMod = 0

---------------------------------------------------------------------------
\* the step is a Visit of the block the previous call visited, on a set
\* with a PseudoLRU tree
SecondTouchStep ==
    /\ lastOp.name = "Visit"
    /\ lastOp'.name = "Visit"
    /\ lastOp'.set = lastOp.set
    /\ lastOp'.way = lastOp.way
    /\ NumWays \in {2, 4, 8}

---------------------------------------------------------------------------
\* the step is a Visit call
VisitStep == lastOp'.name = "Visit"

\* C38: sets are independent in their recency state: Visit(block) changes
\* no block of any set and the PseudoLRUBits of no set but block.SetID, so
\* the PseudoLRU victim of every other set is unchanged
C38_VisitChangesOneSet ==
    [][VisitStep =>
          \A s \in DOMAIN Sets :
              /\ Sets'[s].Blocks = Sets[s].Blocks
              /\ s # lastOp'.set =>
                    /\ Sets'[s].PseudoLRUBits = Sets[s].PseudoLRUBits
                    /\ getPseudoLRUVictim(Sets'[s].PseudoLRUBits, NumWays)
                         = getPseudoLRUVictim(Sets[s].PseudoLRUBits, NumWays)]_vars

\* on a directory of two 4-way sets of valid blocks, Visit of way 2 of set
\* 0, then Visit of way 1 of set 1: the bits of set 0 are as the first
\* call left them
C38_Witness ==
    /\ lastOp.name = "Visit"
    /\ NumSets = 2
    /\ NumWays = 4
    /\ touches = <<Touch(0, 2), Touch(1, 1)>>
    /\ Sets[0].Blocks[0].IsValid
    /\ Sets[0].PseudoLRUBits = updatePseudoLRU(0, 4, 2)
    /\ Sets[1].PseudoLRUBits # Sets[0].PseudoLRUBits

---------------------------------------------------------------------------
\* C39: directory structure invariant: after NewDirectory or Reset and any
\* Lookup, FindVictim, FindVictimWithContext and Visit calls every set
\* holds exactly NumWays blocks, Blocks[j].WayID = j and SetID the index of
\* the set; directly after Reset every block is invalid and unlocked and
\* every PseudoLRUBits is 0
C39_DirectoryStructure ==
    /\ DOMAIN Sets = 0 .. NumSets - 1
    /\ \A i \in DOMAIN Sets :
          /\ DOMAIN Sets[i].Blocks = 0 .. NumWays - 1
          /\ \A j \in DOMAIN Sets[i].Blocks :
                /\ Sets[i].Blocks[j].WayID = j
                /\ Sets[i].Blocks[j].SetID = i
    /\ lastOp.name = "Reset" =>
          \A i \in DOMAIN Sets :
              /\ Sets[i].PseudoLRUBits = 0
              /\ \A j \in DOMAIN Sets[i].Blocks :
                    /\ ~Sets[i].Blocks[j].IsValid
                    /\ ~Sets[i].Blocks[j].IsLocked

\* Reset of a directory of two 4-way sets after a victim search
C39_Witness ==
    /\ lastOp.name = "Reset"
    /\ NumSets = 2
    /\ NumWays = 4
    /\ totalPredictions = 1
    /\ touches = <<>>

====
